---- MODULE Spec2Model ----
(***************************************************************************)
(* The GPU register file of video_core (core/hw/gpu.h): the Regs layout,   *)
(* its bit-field views and derived quantities, word-indexed access, and    *)
(* the Read/Write dispatch with the three engine triggers (memory fill,    *)
(* display transfer / texture copy, command processor).                    *)
(*                                                                         *)
(* A u32 is the pair <<hi, lo>> of its 16-bit halves, so that every value  *)
(* of the full 32-bit range is representable and wraparound is explicit.   *)
(***************************************************************************)
EXTENDS Integers, Sequences, FiniteSets, TLC

\* ------------------------------------------------------------------ u32

Half == 2 ^ 16

Hi(w) == w[1]
Lo(w) == w[2]

Zero == <<0, 0>>

\* The u32 of a natural number below 2^31.
U32(n) == <<n \div Half, n % Half>>

IsU32(w) == /\ w \in Seq(Nat)
            /\ Len(w) = 2
            /\ Hi(w) < Half
            /\ Lo(w) < Half

\* a * k in uint32_t arithmetic, for a small factor k.
U32Mul(a, k) ==
    LET lo == Lo(a) * k
    IN  <<(Hi(a) * k + lo \div Half) % Half, lo % Half>>

\* a + b in uint32_t arithmetic.
U32Add(a, b) ==
    LET lo == Lo(a) + Lo(b)
    IN  <<(Hi(a) + Hi(b) + lo \div Half) % Half, lo % Half>>

\* a - b in uint32_t arithmetic.
U32Sub(a, b) ==
    LET borrow == IF Lo(a) < Lo(b) THEN 1 ELSE 0
    IN  <<(Hi(a) - Hi(b) - borrow + 2 * Half) % Half, (Lo(a) - Lo(b) + Half) % Half>>

U32Less(a, b) == \/ Hi(a) < Hi(b)
                 \/ Hi(a) = Hi(b) /\ Lo(a) < Lo(b)

U32Min(a, b) == IF U32Less(b, a) THEN b ELSE a

RECURSIVE AndBits(_, _, _)
\* x & y on the low n bits.
AndBits(x, y, n) ==
    IF n = 0 THEN 0
    ELSE (x % 2) * (y % 2) + 2 * AndBits(x \div 2, y \div 2, n - 1)

\* a & b
U32And(a, b) == <<AndBits(Hi(a), Hi(b), 16), AndBits(Lo(a), Lo(b), 16)>>

\* a >> n, 0 <= n <= 16
U32Shr(a, n) ==
    <<Hi(a) \div (2 ^ n), (Lo(a) \div (2 ^ n)) + (Hi(a) % (2 ^ n)) * (2 ^ (16 - n))>>

\* Bit k (0..31) of a word.
Bit(w, k) == IF k < 16 THEN (Lo(w) \div (2 ^ k)) % 2
             ELSE (Hi(w) \div (2 ^ (k - 16))) % 2

\* The word with bit k set to b.
SetBit(w, k, b) ==
    IF k < 16 THEN <<Hi(w), Lo(w) + (b - Bit(w, k)) * (2 ^ k)>>
    ELSE <<Hi(w) + (b - Bit(w, k)) * (2 ^ (k - 16)), Lo(w)>>

RECURSIVE BitFieldValue(_, _, _)
\* BitFieldLegacy<pos, bits, u32>::Value() on the storage word w.
BitFieldValue(pos, bits, w) ==
    IF bits = 0 THEN 0
    ELSE Bit(w, pos) + 2 * BitFieldValue(pos + 1, bits - 1, w)

\* ---------------------------------------------------------------- layout
\* Each member is <<name, size in 32-bit words>>, in declaration order.
\* INSERT_PADDING_WORDS at source line n declares the member "pad<n>".

\* sizeof(members) / sizeof(u32)
SizeWords(members) ==
    LET sum[k \in 0..Len(members)] ==
            IF k = 0 THEN 0 ELSE sum[k - 1] + members[k][2]
    IN  sum[Len(members)]

\* offsetof(struct, name) / sizeof(u32): standard layout, no implicit padding
\* between u32 members.
OffsetWords(members, name) ==
    LET at == CHOOSE k \in 1..Len(members) : members[k][1] = name
    IN  SizeWords(SubSeq(members, 1, at - 1))

MemoryFillMembers ==
    << <<"address_start", 1>>, <<"address_end", 1>>, <<"value_32bit", 1>>,
       <<"control", 1>> >>

FramebufferMembers ==
    << <<"size", 1>>, <<"pad126", 2>>, <<"address_left1", 1>>,
       <<"address_left2", 1>>, <<"format", 1>>, <<"pad137", 1>>,
       <<"active_fb", 1>>, <<"pad147", 5>>, <<"stride", 1>>,
       <<"address_right1", 1>>, <<"address_right2", 1>>, <<"pad155", 48>> >>

DisplayTransferMembersNoPad ==
    << <<"input_address", 1>>, <<"output_address", 1>>, <<"output_size", 1>>,
       <<"input_size", 1>>, <<"flags", 1>>, <<"trigger", 1>>,
       <<"pad213", 1>>, <<"pad218", 1>>, <<"total_bytes_to_copy", 1>>,
       <<"input_size_with_padding", 1>>, <<"output_size_with_padding", 1>> >>

DisplayTransferMembers ==
    << <<"input_address", 1>>, <<"output_address", 1>>, <<"output_size", 1>>,
       <<"input_size", 1>>, <<"flags", 1>>, <<"pad213", 1>>,
       <<"trigger", 1>>, <<"pad218", 1>>, <<"total_bytes_to_copy", 1>>,
       <<"input_size_with_padding", 1>>, <<"output_size_with_padding", 1>> >>

CommandProcessorMembersPacked ==
    << <<"size", 1>>, <<"address", 1>>, <<"pad258", 1>>, <<"pad263", 1>>,
       <<"trigger", 1>> >>

CommandProcessorMembers ==
    << <<"size", 1>>, <<"pad258", 1>>, <<"address", 1>>, <<"pad263", 1>>,
       <<"trigger", 1>> >>

RegsMembersShortPad ==
    << <<"pad72", 4>>,
       <<"memory_fill_config", 2 * SizeWords(MemoryFillMembers)>>,
       <<"pad116", 266>>,
       <<"framebuffer_config", 2 * SizeWords(FramebufferMembers)>>,
       <<"pad159", 361>>,
       <<"display_transfer_config", SizeWords(DisplayTransferMembers)>>,
       <<"pad252", 813>>,
       <<"command_processor_config", SizeWords(CommandProcessorMembers)>>,
       <<"pad274", 2499>> >>

RegsMembers ==
    << <<"pad72", 4>>,
       <<"memory_fill_config", 2 * SizeWords(MemoryFillMembers)>>,
       <<"pad116", 267>>,
       <<"framebuffer_config", 2 * SizeWords(FramebufferMembers)>>,
       <<"pad159", 361>>,
       <<"display_transfer_config", SizeWords(DisplayTransferMembers)>>,
       <<"pad252", 813>>,
       <<"command_processor_config", SizeWords(CommandProcessorMembers)>>,
       <<"pad274", 2499>> >>

\* Regs::NumIds(): sizeof(Regs) / sizeof(u32)
NumIds == SizeWords(RegsMembers)

\* The names of the members of a struct.
MemberNames(members) == {members[k][1] : k \in 1..Len(members)}

\* offsetof / sizeof(u32) of every member of each struct, and sizeof / sizeof(u32)
\* of the array elements.
RegsOffsets == [n \in MemberNames(RegsMembers) |-> OffsetWords(RegsMembers, n)]

MemoryFillOffsets ==
    [n \in MemberNames(MemoryFillMembers) |-> OffsetWords(MemoryFillMembers, n)]

FramebufferOffsets ==
    [n \in MemberNames(FramebufferMembers) |-> OffsetWords(FramebufferMembers, n)]

DisplayTransferOffsets ==
    [n \in MemberNames(DisplayTransferMembers) |->
        OffsetWords(DisplayTransferMembers, n)]

CommandProcessorOffsets ==
    [n \in MemberNames(CommandProcessorMembers) |->
        OffsetWords(CommandProcessorMembers, n)]

MemoryFillWords == SizeWords(MemoryFillMembers)

FramebufferWords == SizeWords(FramebufferMembers)

\* GPU_REG_INDEX(field): the word index of a field of the register file.
MemoryFillIndex(i, field) ==
    RegsOffsets["memory_fill_config"] + i * MemoryFillWords + MemoryFillOffsets[field]

FramebufferIndex(i, field) ==
    RegsOffsets["framebuffer_config"] + i * FramebufferWords + FramebufferOffsets[field]

DisplayTransferIndex(field) ==
    RegsOffsets["display_transfer_config"] + DisplayTransferOffsets[field]

CommandProcessorIndex(field) ==
    RegsOffsets["command_processor_config"] + CommandProcessorOffsets[field]

\* The named blocks of Regs: <<member, array index>>.
Blocks ==
    {<<"memory_fill_config", 0>>, <<"memory_fill_config", 1>>,
     <<"framebuffer_config", 0>>, <<"framebuffer_config", 1>>,
     <<"display_transfer_config", 0>>, <<"command_processor_config", 0>>}

\* sizeof(one element of the block) / sizeof(u32)
BlockWords(b) ==
    CASE b[1] = "memory_fill_config" -> SizeWords(MemoryFillMembers)
      [] b[1] = "framebuffer_config" -> SizeWords(FramebufferMembers)
      [] b[1] = "display_transfer_config" -> SizeWords(DisplayTransferMembers)
      [] b[1] = "command_processor_config" -> SizeWords(CommandProcessorMembers)

\* offsetof(Regs, block) / sizeof(u32)
BlockStart(b) == RegsOffsets[b[1]] + b[2] * BlockWords(b)

\* The members declared by INSERT_PADDING_WORDS.
PaddingNames ==
    {"pad72", "pad116", "pad159", "pad252", "pad274", "pad126", "pad137",
     "pad147", "pad155", "pad213", "pad218", "pad258", "pad263"}

FieldNames(members) == MemberNames(members) \ PaddingNames

\* The word indices that hold a named field.
NamedWords ==
    {MemoryFillIndex(i, f) : i \in 0..1, f \in FieldNames(MemoryFillMembers)}
        \cup {FramebufferIndex(i, f) : i \in 0..1, f \in FieldNames(FramebufferMembers)}
        \cup {DisplayTransferIndex(f) : f \in FieldNames(DisplayTransferMembers)}
        \cup {CommandProcessorIndex(f) : f \in FieldNames(CommandProcessorMembers)}

\* ------------------------------------------------------- register file
\* g_regs is zero-initialised static storage.  A register file is kept as
\* the function from the indices of its nonzero words to their values; every
\* other word of 0..NumIds-1 is zero.

RegAtOffByOne(r, index) == IF index + 1 \in DOMAIN r THEN r[index + 1] ELSE Zero

\* Regs::operator[] for an index inside the object: content[index].
RegAt(r, index) == IF index \in DOMAIN r THEN r[index] ELSE Zero

\* Assignment through the reference operator[] returns: content[index] = v.
RegStore(r, index, v) ==
    IF v = Zero
    THEN [w \in DOMAIN r \ {index} |-> r[w]]
    ELSE [w \in DOMAIN r \cup {index} |-> IF w = index THEN v ELSE r[w]]

\* The words in which two register files differ.
ChangedWords(r1, r2) ==
    {w \in DOMAIN r1 \cup DOMAIN r2 : RegAt(r1, w) # RegAt(r2, w)}

\* ------------------------------------------------- physical addresses

DecodeAddressRegisterNoScale(register_value) == register_value

\* Regs::DecodeAddressRegister: register_value * 8 in u32 arithmetic.
DecodeAddressRegister(register_value) == U32Mul(register_value, 8)

\* memory_fill_config[i].GetStartAddress() / GetEndAddress()
GetStartAddress(r, i) ==
    DecodeAddressRegister(RegAt(r, MemoryFillIndex(i, "address_start")))

GetEndAddress(r, i) ==
    DecodeAddressRegister(RegAt(r, MemoryFillIndex(i, "address_end")))

\* display_transfer_config.GetPhysicalInputAddress() / GetPhysicalOutputAddress()
GetPhysicalInputAddress(r) ==
    DecodeAddressRegister(RegAt(r, DisplayTransferIndex("input_address")))

GetPhysicalOutputAddress(r) ==
    DecodeAddressRegister(RegAt(r, DisplayTransferIndex("output_address")))

\* command_processor_config.GetPhysicalAddress()
GetPhysicalAddress(r) ==
    DecodeAddressRegister(RegAt(r, CommandProcessorIndex("address")))

\* ------------------------------------------------------ texture copy

Mask16 == <<0, Half - 1>>

InputBytesPerLineNarrowMask(r) ==
    U32Mul(U32And(RegAt(r, DisplayTransferIndex("input_size_with_padding")),
                  <<0, 4095>>), 16)

InputBytesPerLine(r) ==
    U32Mul(U32And(RegAt(r, DisplayTransferIndex("input_size_with_padding")),
                  Mask16), 16)

OutputBytesPerLine(r) ==
    U32Mul(U32And(RegAt(r, DisplayTransferIndex("output_size_with_padding")),
                  Mask16), 16)

InputPaddingBytesPerLine(r) ==
    U32Mul(U32Shr(RegAt(r, DisplayTransferIndex("input_size_with_padding")), 16), 16)

OutputPaddingBytesPerLine(r) ==
    U32Mul(U32Shr(RegAt(r, DisplayTransferIndex("output_size_with_padding")), 16), 16)

InputTotalBytesPerLineNoPadding(r) == InputBytesPerLine(r)

InputTotalBytesPerLine(r) ==
    U32Add(InputBytesPerLine(r), InputPaddingBytesPerLine(r))

OutputTotalBytesPerLine(r) ==
    U32Add(OutputBytesPerLine(r), OutputPaddingBytesPerLine(r))

\* ------------------------------------------------------------ formats

format_map_swapped == <<"RGBA8", "RGB8", "RGBA5551", "RGB565", "RGBA4">>

\* Regs::FramebufferFormat::format_map
format_map == <<"RGBA8", "RGB8", "RGB565", "RGBA5551", "RGBA4">>

\* framebuffer_config[i].GetFormat(): FramebufferFormat { format }
GetFormat(r, i) == RegAt(r, FramebufferIndex(i, "format"))

\* display_transfer_config.GetInputFormat(): FramebufferFormat { input_format.Value() }
GetInputFormat(r) == U32(BitFieldValue(8, 3, RegAt(r, DisplayTransferIndex("flags"))))

\* display_transfer_config.GetOutputFormat()
GetOutputFormat(r) == U32(BitFieldValue(12, 3, RegAt(r, DisplayTransferIndex("flags"))))

\* The lookup of a FramebufferFormat in format_map by its consumer: the
\* GenericImageFormat of a raw code, InvalidFormat outside the table.
FormatLookup(raw) ==
    IF Hi(raw) = 0 /\ Lo(raw) < Len(format_map)
    THEN format_map[Lo(raw) + 1]
    ELSE "InvalidFormat"

\* --------------------------------------------------------------- state

VARIABLES
    regs,   \* g_regs: the register file
    pc,     \* "idle", or "copy" while a Write is inside the texture copy loop
    op,     \* the operation performed last (the one in progress while pc = "copy")
    calls,  \* the collaborator calls made by the last Write, in order
    copy    \* progress of the texture copy loop: line index and bytes moved

vars == <<regs, pc, op, calls, copy>>

\* Bound on the lines one texture copy is followed for.
MaxLines == 4

NoOp ==
    [kind |-> "None", addr |-> 0, data |-> Zero, var |-> Zero, err |-> "None",
     engine |-> "none", chained |-> FALSE, prior |-> Zero, source |-> "None",
     result |-> "None"]

NoCopy == [line |-> 0, moved |-> Zero]

Init ==
    /\ regs = [w \in {} |-> Zero]
    /\ pc = "idle"
    /\ op = NoOp
    /\ calls = <<>>
    /\ copy = NoCopy

\* ------------------------------------------------------------ dispatch

\* The size of the register space in bytes.
RegSpaceBytes == NumIds * 4

TriggerWords ==
    {MemoryFillIndex(0, "control"), MemoryFillIndex(1, "control"),
     DisplayTransferIndex("trigger"), CommandProcessorIndex("trigger")}

\* The engine behind a trigger word.
EngineOf(index) ==
    IF index = MemoryFillIndex(0, "control") THEN "memory_fill0"
    ELSE IF index = MemoryFillIndex(1, "control") THEN "memory_fill1"
    ELSE IF index = DisplayTransferIndex("trigger") THEN "display_transfer"
    ELSE IF index = CommandProcessorIndex("trigger") THEN "command_processor"
    ELSE "none"

\* The bit fields of memory_fill_config[i].control: <<position, bits>>.
TriggerField == <<0, 1>>

FinishedFieldShifted == <<2, 1>>

FinishedField == <<1, 1>>

Fill24BitField == <<8, 1>>

Fill32BitField == <<9, 1>>

\* BitFieldLegacy::Value() of a field of a word.
FieldValue(field, w) == BitFieldValue(field[1], field[2], w)

\* The word with a one-bit field assigned.
FieldAssign(field, w, b) == SetBit(w, field[1], b)

TriggerBit(w) == FieldValue(TriggerField, w)
FinishedBit(w) == FieldValue(FinishedField, w)
Fill24Bit(w) == FieldValue(Fill24BitField, w)
Fill32Bit(w) == FieldValue(Fill32BitField, w)

\* display_transfer_config.is_raw_copy
IsRawCopy(r) == BitFieldValue(3, 1, RegAt(r, DisplayTransferIndex("flags")))

\* The memory fill of unit i on the register file r: the call to the
\* memory-write collaborator.
MemoryFillCall(r, i) ==
    LET control == RegAt(r, MemoryFillIndex(i, "control"))
        value == RegAt(r, MemoryFillIndex(i, "value_32bit"))
        width == IF Fill24Bit(control) = 1 THEN 24
                 ELSE IF Fill32Bit(control) = 1 THEN 32 ELSE 16
    IN  [kind |-> "MemoryFill", unit |-> i,
         start |-> GetStartAddress(r, i), end |-> GetEndAddress(r, i),
         width |-> width,
         value |-> IF width = 32 THEN value
                   ELSE IF width = 24 THEN <<Hi(value) % 256, Lo(value)>>
                   ELSE <<0, BitFieldValue(0, 16, value)>>]

\* The completion of a memory fill: trigger reset to 0, finished set to 1.
MemoryFillDone(control) ==
    FieldAssign(FinishedField, FieldAssign(TriggerField, control, 0), 1)

\* The display transfer in format mode: the one call to the blit collaborator.
BlitCall(r) ==
    [kind |-> "Blit",
     input |-> GetPhysicalInputAddress(r), output |-> GetPhysicalOutputAddress(r),
     input_size |-> RegAt(r, DisplayTransferIndex("input_size")),
     output_size |-> RegAt(r, DisplayTransferIndex("output_size")),
     input_format |-> FormatLookup(GetInputFormat(r)),
     output_format |-> FormatLookup(GetOutputFormat(r)),
     flags |-> RegAt(r, DisplayTransferIndex("flags"))]

\* The command list submission: the call to the command-list collaborator.
CommandListCall(r) ==
    [kind |-> "CommandList",
     physical_address |-> GetPhysicalAddress(r),
     unit_count |-> RegAt(r, CommandProcessorIndex("size"))]

\* GPU::Write<u32>(context, addr, data)
Write(addr, data) ==
    /\ pc = "idle"
    /\ copy' = NoCopy
    /\ IF addr >= RegSpaceBytes
       THEN /\ op' = [NoOp EXCEPT !.kind = "Write", !.addr = addr, !.data = data,
                                  !.err = "OutOfRange"]
            /\ UNCHANGED <<regs, pc>>
            /\ calls' = <<>>
       ELSE LET index == addr \div 4
                old == RegAt(regs, index)
                stored == RegStore(regs, index, data)
                engine == IF TriggerBit(old) = 0 /\ TriggerBit(data) = 1
                          THEN EngineOf(index) ELSE "none"
                done == [NoOp EXCEPT !.kind = "Write", !.addr = addr,
                                     !.data = data, !.engine = engine]
            IN  CASE engine = "memory_fill0" ->
                       /\ calls' = <<MemoryFillCall(stored, 0)>>
                       /\ regs' = RegStore(regs, index, MemoryFillDone(data))
                       /\ op' = done
                       /\ pc' = "idle"
                  [] engine = "memory_fill1" ->
                       /\ calls' = <<MemoryFillCall(stored, 1)>>
                       /\ regs' = RegStore(regs, index, MemoryFillDone(data))
                       /\ op' = done
                       /\ pc' = "idle"
                  [] engine = "display_transfer" /\ IsRawCopy(stored) = 1 ->
                       /\ calls' = <<>>
                       /\ regs' = stored
                       /\ op' = done
                       /\ pc' = "copy"
                  [] engine = "display_transfer" /\ IsRawCopy(stored) = 0 ->
                       /\ regs' = stored
                       /\ pc' = "idle"
                       /\ IF "InvalidFormat" \in {FormatLookup(GetInputFormat(stored)),
                                                  FormatLookup(GetOutputFormat(stored))}
                          THEN /\ calls' = <<>>
                               /\ op' = [done EXCEPT !.err = "InvalidFormat"]
                          ELSE /\ calls' = <<BlitCall(stored)>>
                               /\ op' = done
                  [] engine = "command_processor" ->
                       /\ calls' = <<CommandListCall(stored)>>
                       /\ regs' = stored
                       /\ op' = done
                       /\ pc' = "idle"
                  [] engine = "none" ->
                       /\ calls' = <<>>
                       /\ regs' = stored
                       /\ op' = done
                       /\ pc' = "idle"

\* One line of the texture copy: InputBytesPerLine() bytes, fewer on the last
\* line, from input + line * InputTotalBytesPerLine() to
\* output + line * OutputTotalBytesPerLine().
CopyLine ==
    /\ pc = "copy"
    /\ copy.moved # RegAt(regs, DisplayTransferIndex("total_bytes_to_copy"))
    /\ copy.line < MaxLines
    /\ LET total == RegAt(regs, DisplayTransferIndex("total_bytes_to_copy"))
           len == U32Min(InputBytesPerLine(regs), U32Sub(total, copy.moved))
       IN  /\ calls' = Append(calls,
                   [kind |-> "Copy",
                    src |-> U32Add(GetPhysicalInputAddress(regs),
                                   U32Mul(InputTotalBytesPerLine(regs), copy.line)),
                    dst |-> U32Add(GetPhysicalOutputAddress(regs),
                                   U32Mul(OutputTotalBytesPerLine(regs), copy.line)),
                    len |-> len])
           /\ copy' = [line |-> copy.line + 1, moved |-> U32Add(copy.moved, len)]
    /\ UNCHANGED <<regs, pc, op>>

\* The texture copy has moved total_bytes_to_copy bytes: the Write returns.
CopyDone ==
    /\ pc = "copy"
    /\ copy.moved = RegAt(regs, DisplayTransferIndex("total_bytes_to_copy"))
    /\ pc' = "idle"
    /\ UNCHANGED <<regs, op, calls, copy>>

\* GPU::Read<u32>(context, var, addr)
Read(addr) ==
    /\ pc = "idle"
    /\ IF addr >= RegSpaceBytes
       THEN op' = [NoOp EXCEPT !.kind = "Read", !.addr = addr, !.err = "OutOfRange"]
       ELSE op' = [NoOp EXCEPT !.kind = "Read", !.addr = addr,
                              !.var = RegAt(regs, addr \div 4),
                              !.chained = (op.kind = "Write" /\ op.addr = addr),
                              !.prior = IF op.kind = "Write" /\ op.addr = addr
                                        THEN op.data ELSE Zero]
    /\ UNCHANGED <<regs, pc, calls, copy>>

\* ------------------------------------------------- word-indexed access
\* Regs::operator[] (int index) is content[index] with no range check: for an
\* index outside the object the behaviour is undefined.  The builds either
\* touch the memory next to g_regs and go on without an error (a read yields
\* whatever is stored there) or fault.

Garbage == <<57005, 48879>>

UndefinedOutcomes ==
    {[err |-> "None", var |-> Zero], [err |-> "None", var |-> Garbage],
     [err |-> "Fault", var |-> Zero]}

\* var = g_regs[index]
IndexRead(index) ==
    /\ pc = "idle"
    /\ IF index \in 0..(NumIds - 1)
       THEN op' = [NoOp EXCEPT !.kind = "IndexRead", !.addr = index,
                              !.var = RegAt(regs, index)]
       ELSE \E out \in UndefinedOutcomes :
                op' = [NoOp EXCEPT !.kind = "IndexRead", !.addr = index,
                                  !.var = out.var, !.err = out.err]
    /\ UNCHANGED <<regs, pc, calls, copy>>

\* g_regs[index] = data
IndexWrite(index, data) ==
    /\ pc = "idle"
    /\ IF index \in 0..(NumIds - 1)
       THEN /\ regs' = RegStore(regs, index, data)
            /\ op' = [NoOp EXCEPT !.kind = "IndexWrite", !.addr = index,
                                  !.data = data]
       ELSE /\ \E out \in UndefinedOutcomes :
                op' = [NoOp EXCEPT !.kind = "IndexWrite", !.addr = index,
                                  !.data = data, !.err = out.err]
            /\ regs' = regs
    /\ UNCHANGED <<pc, calls, copy>>

\* A consumer looks a stored format code up in format_map.
FormatSource(r, which) ==
    CASE which = "framebuffer0" -> GetFormat(r, 0)
      [] which = "framebuffer1" -> GetFormat(r, 1)
      [] which = "input" -> GetInputFormat(r)
      [] which = "output" -> GetOutputFormat(r)

Lookup(which) ==
    /\ pc = "idle"
    /\ LET raw == FormatSource(regs, which)
           found == FormatLookup(raw)
       IN  op' = [NoOp EXCEPT !.kind = "Lookup", !.source = which, !.data = raw,
                             !.result = found,
                             !.err = IF found = "InvalidFormat"
                                     THEN "InvalidFormat" ELSE "None"]
    /\ UNCHANGED <<regs, pc, calls, copy>>

\* ------------------------------------- the register file as a whole
\* Reads and writes over the first word of every block, a trigger word, a
\* padding word, and offsets on both sides of the end of the register space.

AllOnes == <<Half - 1, Half - 1>>

RegWords ==
    {MemoryFillIndex(0, "address_start"), MemoryFillIndex(1, "address_start"),
     MemoryFillIndex(1, "control"),
     FramebufferIndex(0, "size"), FramebufferIndex(1, "size"),
     DisplayTransferIndex("input_address"), CommandProcessorIndex("size"),
     NumIds - 1}

RegAddrs == {4 * w : w \in RegWords} \cup {RegSpaceBytes, RegSpaceBytes + 4}

RegWrite == \E addr \in RegAddrs, data \in {Zero, AllOnes} : Write(addr, data)

RegRead == \E addr \in RegAddrs : Read(addr)

Next == RegWrite \/ RegRead

Spec == Init /\ [][Next]_vars

\* ------------------------------------------------ word-indexed access
\* operator[] beside the dispatch interface, with indices on both sides of
\* both ends of the register file.

IndexWords == {0, MemoryFillIndex(0, "control"), NumIds - 1}

IndexChoices == IndexWords \cup {-1, NumIds, NumIds + 1}

IndexAddrs == {4 * w : w \in IndexWords} \cup {RegSpaceBytes}

IdxWrite == \E addr \in IndexAddrs, data \in {Zero, U32(1), AllOnes} : Write(addr, data)

IdxRead == \E addr \in IndexAddrs : Read(addr)

IdxIndexRead == \E index \in IndexChoices : IndexRead(index)

IdxIndexWrite == \E index \in IndexChoices, data \in {Zero, U32(1)} : IndexWrite(index, data)

NextIndex == IdxWrite \/ IdxRead \/ IdxIndexRead \/ IdxIndexWrite

SpecIndex == Init /\ [][NextIndex]_vars

\* ------------------------------------------------------- memory fill
\* Both fill units through the dispatch interface: addresses, fill value and
\* control words with and without the trigger bit, in every order.

FillWrites ==
    UNION {{<<4 * MemoryFillIndex(i, "address_start"), U32(4096)>>,
            <<4 * MemoryFillIndex(i, "address_end"), U32(8192)>>,
            <<4 * MemoryFillIndex(i, "value_32bit"), <<4660, 22136>> >>,
            <<4 * MemoryFillIndex(i, "control"), Zero>>,
            <<4 * MemoryFillIndex(i, "control"), U32(1)>>,
            <<4 * MemoryFillIndex(i, "control"), U32(513)>>} : i \in 0..1}

FillWrite == \E c \in FillWrites : Write(c[1], c[2])

FillRead == \E i \in 0..1 : Read(4 * MemoryFillIndex(i, "control"))

NextFill == FillWrite \/ FillRead

SpecFill == Init /\ [][NextFill]_vars

\* ------------------------------------------------- command processor
\* Command list size, address and trigger through the dispatch interface.

CommandWrites ==
    {<<4 * CommandProcessorIndex("size"), v>> : v \in {Zero, U32(4), AllOnes}}
        \cup {<<4 * CommandProcessorIndex("address"), v>> :
                 v \in {Zero, U32(4096), <<8192, 0>>, AllOnes}}
        \cup {<<4 * CommandProcessorIndex("trigger"), v>> :
                 v \in {Zero, U32(1), U32(2), U32(3)}}

CommandWrite == \E c \in CommandWrites : Write(c[1], c[2])

CommandRead == Read(4 * CommandProcessorIndex("trigger"))

NextCommand == CommandWrite \/ CommandRead

SpecCommand == Init /\ [][NextCommand]_vars

\* ------------------------------------------------------ trigger words
\* Every trigger word written with every value of its two low bits, beside a
\* named word and a padding word, with the display transfer in format mode
\* and in raw copy mode (of zero bytes).

TriggerWrites ==
    {<<4 * w, U32(v)>> : w \in TriggerWords, v \in 0..3}
        \cup {<<4 * MemoryFillIndex(0, "value_32bit"), U32(1)>>,
               <<4 * (DisplayTransferIndex("flags") + 1), U32(1)>>,
               <<4 * DisplayTransferIndex("flags"), Zero>>,
               <<4 * DisplayTransferIndex("flags"), U32(8)>>}

TriggerWrite == \E c \in TriggerWrites : Write(c[1], c[2])

TriggerRead == \E w \in TriggerWords : Read(4 * w)

NextTrigger == TriggerWrite \/ TriggerRead \/ CopyDone

SpecTrigger == Init /\ [][NextTrigger]_vars

\* -------------------------------------------------- address registers
\* The five kinds of address register with values at both ends of the 32-bit
\* range and on both sides of the wraparound of * 8, and the triggers of the
\* engines that decode them.

AddressWrites ==
    {<<4 * MemoryFillIndex(0, "address_start"), v>> :
         v \in {Zero, AllOnes, <<8191, Half - 1>>}}
        \cup {<<4 * MemoryFillIndex(1, "address_end"), v>> : v \in {Zero, <<8192, 0>>}}
        \cup {<<4 * DisplayTransferIndex("input_address"), v>> :
                 v \in {Zero, AllOnes, U32(1)}}
        \cup {<<4 * DisplayTransferIndex("output_address"), v>> :
                 v \in {Zero, <<32768, 1>>}}
        \cup {<<4 * CommandProcessorIndex("address"), v>> :
                 v \in {Zero, AllOnes, U32(4096)}}
        \cup {<<4 * w, v>> : w \in TriggerWords, v \in {Zero, U32(1)}}

AddressWrite == \E c \in AddressWrites : Write(c[1], c[2])

NextAddress == AddressWrite

SpecAddress == Init /\ [][NextAddress]_vars

\* ------------------------------------------------------------ formats
\* Format codes stored in framebuffer_config[i].format and in the 3-bit
\* input_format / output_format fields of the display transfer flags, looked
\* up by a consumer and by the display transfer in format mode.

FormatWrites ==
    {<<4 * FramebufferIndex(0, "format"), v>> :
         v \in {U32(k) : k \in 0..5} \cup {AllOnes, <<1, 2>>}}
        \cup {<<4 * FramebufferIndex(1, "format"), v>> : v \in {U32(4), U32(5)}}
        \cup {<<4 * DisplayTransferIndex("flags"), U32(256 * k + 4096 * (7 - k))>> :
                 k \in 0..7}
        \cup {<<4 * DisplayTransferIndex("flags"), U32(256 * 2 + 4096 * 4)>>}
        \cup {<<4 * DisplayTransferIndex("trigger"), v>> : v \in {Zero, U32(1)}}

FormatWrite == \E c \in FormatWrites : Write(c[1], c[2])

FormatLookups ==
    \E which \in {"framebuffer0", "framebuffer1", "input", "output"} : Lookup(which)

NextFormat == FormatWrite \/ FormatLookups

SpecFormat == Init /\ [][NextFormat]_vars

\* ------------------------------------------------------- texture copy
\* The display transfer in raw copy mode: line sizes with and without
\* padding, input lines shorter and longer than output lines, sizes at the
\* end of the 32-bit range, and totals that end inside a line.

CopyWrites ==
    {<<4 * DisplayTransferIndex("flags"), U32(8)>>,
     <<4 * DisplayTransferIndex("input_address"), U32(32)>>,
     <<4 * DisplayTransferIndex("output_address"), U32(4096)>>,
     <<4 * DisplayTransferIndex("total_bytes_to_copy"), U32(16)>>,
     <<4 * DisplayTransferIndex("total_bytes_to_copy"), U32(40)>>,
     <<4 * DisplayTransferIndex("trigger"), Zero>>,
     <<4 * DisplayTransferIndex("trigger"), U32(1)>>}
        \cup {<<4 * DisplayTransferIndex("input_size_with_padding"), v>> :
                 v \in {<<1, 1>>, <<1, 2>>, <<5, 16>>, AllOnes}}
        \cup {<<4 * DisplayTransferIndex("output_size_with_padding"), v>> :
                 v \in {<<1, 1>>, <<1, 2>>, <<5, 16>>, AllOnes}}

CopyWrite == \E c \in CopyWrites : Write(c[1], c[2])

NextCopy == CopyWrite \/ CopyLine \/ CopyDone

SpecCopy == Init /\ [][NextCopy]_vars

\* The same with the line sizes of one and two 16-byte steps only.  The copy
\* loop is sequential code inside Write: once entered it keeps running.

LoopWrites ==
    {c \in CopyWrites :
        c[1] \in {4 * DisplayTransferIndex("input_size_with_padding"),
                  4 * DisplayTransferIndex("output_size_with_padding")}
            => c[2] \in {<<1, 1>>, <<1, 2>>}}

LoopWrite == \E c \in LoopWrites : Write(c[1], c[2])

NextLoop == LoopWrite \/ CopyLine \/ CopyDone

SpecLoop == Init /\ [][NextLoop]_vars /\ WF_vars(CopyLine) /\ WF_vars(CopyDone)

\* ================================================================ claims

\* y = x * 8 modulo 2^32, bit by bit: y is x shifted left by three bits.
IsTimes8(x, y) ==
    \A k \in 0..31 : Bit(y, k) = IF k < 3 THEN 0 ELSE Bit(x, k - 3)

\* C1: the register file is exactly 0x1000 words; memory_fill_config[0] and
\* [1] start at words 0x004 and 0x008 (0x10 bytes each), framebuffer_config[0]
\* and [1] at 0x117 and 0x157 (0x100 bytes each), display_transfer_config at
\* 0x300 (0x2c bytes), command_processor_config at 0x638 (0x14 bytes); no two
\* blocks share a word; and in every reachable state every stored word lies
\* inside the file and the typed views read the words at these offsets.
C1_LayoutFixed ==
    /\ NumIds = 4096
    /\ BlockStart(<<"memory_fill_config", 0>>) = 4
    /\ BlockStart(<<"memory_fill_config", 1>>) = 8
    /\ BlockStart(<<"framebuffer_config", 0>>) = 279
    /\ BlockStart(<<"framebuffer_config", 1>>) = 343
    /\ BlockStart(<<"display_transfer_config", 0>>) = 768
    /\ BlockStart(<<"command_processor_config", 0>>) = 1592
    /\ 4 * BlockWords(<<"memory_fill_config", 0>>) = 16
    /\ 4 * BlockWords(<<"framebuffer_config", 0>>) = 256
    /\ 4 * BlockWords(<<"display_transfer_config", 0>>) = 44
    /\ 4 * BlockWords(<<"command_processor_config", 0>>) = 20
    /\ \A b1, b2 \in Blocks :
          b1 # b2 => \/ BlockStart(b1) + BlockWords(b1) <= BlockStart(b2)
                     \/ BlockStart(b2) + BlockWords(b2) <= BlockStart(b1)
    /\ DOMAIN regs \subseteq 0..4095
    /\ GetStartAddress(regs, 0) = DecodeAddressRegister(RegAt(regs, 4))
    /\ GetStartAddress(regs, 1) = DecodeAddressRegister(RegAt(regs, 8))
    /\ GetPhysicalInputAddress(regs) = DecodeAddressRegister(RegAt(regs, 768))
    /\ CommandListCall(regs).unit_count = RegAt(regs, 1592)

\* C1 witness: the first word of every block has been written through its
\* byte offset and is stored at the block's word offset.
C1_Witness ==
    /\ \A w \in {4, 8, 279, 343, 768, 1592} : RegAt(regs, w) = AllOnes
    /\ op.kind = "Write" /\ op.addr = 4 * 1592

\* C6: a Read never changes a word of the register file; and a Read of an
\* in-range offset that holds a named, non-trigger word, made immediately
\* after a Write of v to that offset, returns v.
C6_WriteReadRoundTrip ==
    [][/\ op'.kind = "Read" => regs' = regs
       /\ ( /\ op'.kind = "Read"
            /\ op'.chained
            /\ op'.addr < 16384
            /\ (op'.addr \div 4) \in NamedWords \ TriggerWords )
          => op'.err = "None" /\ op'.var = op'.prior]_vars

\* C6 witness: command_processor_config.size read back right after it was written.
C6_Witness ==
    /\ op.kind = "Read" /\ op.chained /\ op.addr = 4 * 1592
    /\ op.var = AllOnes /\ op.prior = AllOnes

\* C8: a word-indexed access with an index outside [0, 4095] and a Read or
\* Write with a byte offset beyond the 16 KiB space fail with OutOfRange and
\* leave every word of the register file unchanged.
C8_OutOfRangeSurfaced ==
    [][( \/ op'.kind \in {"IndexRead", "IndexWrite"} /\ op'.addr \notin 0..4095
         \/ op'.kind \in {"Read", "Write"} /\ op'.addr >= 16384 )
       => op'.err = "OutOfRange" /\ regs' = regs]_vars

\* C8 witness: operator[] was used with index 4096 and no error was raised.
C8_Witness ==
    /\ op.kind = "IndexRead" /\ op.addr = 4096 /\ op.err = "None"

\* C2: for each fill unit i, when a Write that sets bit 0 of
\* memory_fill_config[i].control returns, that word has finished (bit 1) = 1
\* and trigger (bit 0) = 0, the fill of unit i was delegated once, and no word
\* of unit 1-i has changed.
C2_MemoryFillCompletes ==
    [][\A i \in 0..1 :
          (op'.kind = "Write" /\ op'.addr = 4 * (7 + 4 * i) /\ Bit(op'.data, 0) = 1)
          => /\ pc' = "idle"
             /\ Bit(RegAt(regs', 7 + 4 * i), 1) = 1
             /\ Bit(RegAt(regs', 7 + 4 * i), 0) = 0
             /\ Len(calls') = 1 /\ calls'[1].kind = "MemoryFill" /\ calls'[1].unit = i
             /\ \A w \in (4 + 4 * (1 - i))..(7 + 4 * (1 - i)) :
                   RegAt(regs', w) = RegAt(regs, w)]_vars

\* C2 witness: unit 1 was triggered after unit 0: both control words show
\* finished = 1, trigger = 0.
C2_Witness ==
    /\ op.kind = "Write" /\ op.addr = 44 /\ op.data = U32(1)
    /\ RegAt(regs, 7) = U32(514)
    /\ RegAt(regs, 11) = U32(2)
    /\ Len(calls) = 1 /\ calls[1].unit = 1 /\ calls[1].start = U32(32768)

\* C7: a Write that raises bit 0 of command_processor_config.trigger makes
\* exactly one call to the command-list collaborator, with physical_address =
\* address * 8 and unit_count = size as stored at that time (size = 4,
\* address = 0x1000 give 0x8000 and 4), and changes no word of the register
\* file but the trigger word, which holds the value written.
C7_CommandListDelegated ==
    [][( /\ op'.kind = "Write" /\ op'.addr = 4 * 1596
         /\ Bit(RegAt(regs, 1596), 0) = 0 /\ Bit(op'.data, 0) = 1 )
       => /\ pc' = "idle"
          /\ Len(calls') = 1
          /\ calls'[1].kind = "CommandList"
          /\ IsTimes8(RegAt(regs, 1594), calls'[1].physical_address)
          /\ calls'[1].unit_count = RegAt(regs, 1592)
          /\ (RegAt(regs, 1592) = U32(4) /\ RegAt(regs, 1594) = U32(4096))
                => calls'[1] = [kind |-> "CommandList",
                                physical_address |-> U32(32768),
                                unit_count |-> U32(4)]
          /\ ChangedWords(regs, regs') \subseteq {1596}
          /\ RegAt(regs', 1596) = op'.data]_vars

\* C7 witness: the trigger was written with size = 4 and address = 0x1000.
C7_Witness ==
    /\ op.kind = "Write" /\ op.addr = 4 * 1596 /\ op.data = U32(1)
    /\ RegAt(regs, 1592) = U32(4) /\ RegAt(regs, 1594) = U32(4096)
    /\ calls = <<[kind |-> "CommandList", physical_address |-> U32(32768),
                  unit_count |-> U32(4)]>>

C4_DecodeTimes8 ==
    /\ \A i \in 0..1 :
          /\ IsTimes8(RegAt(regs, 4 + 4 * i), GetStartAddress(regs, i))
          /\ IsTimes8(RegAt(regs, 5 + 4 * i), GetEndAddress(regs, i))
    /\ IsTimes8(RegAt(regs, 768), GetPhysicalInputAddress(regs))
    /\ IsTimes8(RegAt(regs, 769), GetPhysicalOutputAddress(regs))
    /\ IsTimes8(RegAt(regs, 1594), GetPhysicalAddress(regs))
    /\ RegAt(regs, 4) = Zero => GetStartAddress(regs, 0) = Zero
    /\ RegAt(regs, 4) = AllOnes => GetStartAddress(regs, 0) = <<65535, 65528>>
    /\ RegAt(regs, 768) = AllOnes => GetPhysicalInputAddress(regs) = <<65535, 65528>>
    /\ RegAt(regs, 1594) = AllOnes => GetPhysicalAddress(regs) = <<65535, 65528>>
    /\ \A k \in 1..Len(calls) :
          CASE calls[k].kind = "MemoryFill" ->
                 /\ IsTimes8(RegAt(regs, 4 + 4 * calls[k].unit), calls[k].start)
                 /\ IsTimes8(RegAt(regs, 5 + 4 * calls[k].unit), calls[k].end)
            [] calls[k].kind = "Blit" ->
                 /\ IsTimes8(RegAt(regs, 768), calls[k].input)
                 /\ IsTimes8(RegAt(regs, 769), calls[k].output)
            [] calls[k].kind = "CommandList" ->
                 IsTimes8(RegAt(regs, 1594), calls[k].physical_address)
            [] OTHER -> TRUE

\* C4 witness: a memory fill ran with address_start = 0xFFFFFFFF, which
\* decodes to 0xFFFFFFF8, while the command processor address is 0xFFFFFFFF.
C4_Witness ==
    /\ RegAt(regs, 4) = AllOnes
    /\ RegAt(regs, 1594) = AllOnes
    /\ Len(calls) = 1 /\ calls[1].kind = "MemoryFill" /\ calls[1].unit = 0
    /\ calls[1].start = <<65535, 65528>>

\* C9: the lookup of a format code gives RGBA8, RGB8, RGB565, RGBA5551, RGBA4
\* for the raw codes 0..4 and InvalidFormat for every other code; the code
\* looked up is the one stored (the format word of a framebuffer, bits 8..10
\* or 12..14 of the display transfer flags); and a Write of a flags word is
\* stored as written without error, whatever its format fields hold.
C9_FormatLookup ==
    /\ op.kind = "Lookup" =>
          /\ op.data = CASE op.source = "framebuffer0" -> RegAt(regs, 279 + 5)
                          [] op.source = "framebuffer1" -> RegAt(regs, 343 + 5)
                          [] op.source = "input" ->
                               <<0, (Lo(RegAt(regs, 772)) \div 256) % 8>>
                          [] op.source = "output" ->
                               <<0, (Lo(RegAt(regs, 772)) \div 4096) % 8>>
          /\ op.result = CASE op.data = <<0, 0>> -> "RGBA8"
                            [] op.data = <<0, 1>> -> "RGB8"
                            [] op.data = <<0, 2>> -> "RGB565"
                            [] op.data = <<0, 3>> -> "RGBA5551"
                            [] op.data = <<0, 4>> -> "RGBA4"
                            [] OTHER -> "InvalidFormat"
          /\ op.err = IF op.result = "InvalidFormat" THEN "InvalidFormat" ELSE "None"
    /\ (op.kind = "Write" /\ op.addr = 4 * 772) =>
          /\ op.err = "None"
          /\ RegAt(regs, 772) = op.data

\* C9 witness: input_format = 5 was stored by a Write of the flags word and
\* its lookup then gave InvalidFormat.
C9_Witness ==
    /\ op.kind = "Lookup" /\ op.source = "input"
    /\ RegAt(regs, 772) = U32(256 * 5 + 4096 * 2)
    /\ op.data = U32(5) /\ op.result = "InvalidFormat" /\ op.err = "InvalidFormat"

\* The value of a u32 below 2^31 as a number.
ToNat(w) == Hi(w) * Half + Lo(w)

\* C5: for the stored input_size_with_padding s (and likewise for
\* output_size_with_padding), BytesPerLine = (s mod 2^16) * 16,
\* PaddingBytesPerLine = (s div 2^16) * 16 and TotalBytesPerLine is their sum
\* without wraparound; s = 0x00050010 gives 256, 80 and 336.
C5_LineSizes ==
    LET sin == RegAt(regs, 777)
        sout == RegAt(regs, 778)
    IN  /\ ToNat(InputBytesPerLine(regs)) = Lo(sin) * 16
        /\ ToNat(InputPaddingBytesPerLine(regs)) = Hi(sin) * 16
        /\ ToNat(InputTotalBytesPerLine(regs)) = Lo(sin) * 16 + Hi(sin) * 16
        /\ ToNat(OutputBytesPerLine(regs)) = Lo(sout) * 16
        /\ ToNat(OutputPaddingBytesPerLine(regs)) = Hi(sout) * 16
        /\ ToNat(OutputTotalBytesPerLine(regs)) = Lo(sout) * 16 + Hi(sout) * 16
        /\ sin = <<5, 16>> =>
              /\ InputBytesPerLine(regs) = U32(256)
              /\ InputPaddingBytesPerLine(regs) = U32(80)
              /\ InputTotalBytesPerLine(regs) = U32(336)
        /\ sout = <<5, 16>> => OutputTotalBytesPerLine(regs) = U32(336)

\* C5 witness: a texture copy ran with input_size_with_padding = 0x00050010
\* and output_size_with_padding = 0xFFFFFFFF.
C5_Witness ==
    /\ RegAt(regs, 777) = <<5, 16>>
    /\ RegAt(regs, 778) = AllOnes
    /\ pc = "idle" /\ op.engine = "display_transfer" /\ Len(calls) = 1

\* The texture copy parameters as numbers, read from the words of the
\* display transfer block.
CopyTotal == ToNat(RegAt(regs, 776))
CopyInBytes == Lo(RegAt(regs, 777)) * 16
CopyInPadding == Hi(RegAt(regs, 777)) * 16
CopyOutBytes == Lo(RegAt(regs, 778)) * 16
CopyOutPadding == Hi(RegAt(regs, 778)) * 16
CopyInBase == ToNat(RegAt(regs, 768)) * 8
CopyOutBase == ToNat(RegAt(regs, 769)) * 8

MinOf(a, b) == IF a < b THEN a ELSE b

\* Byte o of a buffer of lines of bytes + padding bytes lies in a line's padding.
InPaddingPart(o, bytes, padding) ==
    /\ padding > 0
    /\ o % (bytes + padding) >= bytes

\* The last Write started a texture copy (in progress or returned).
RawCopyStarted ==
    /\ op.kind = "Write" /\ op.addr = 4 * 774 /\ op.engine = "display_transfer"
    /\ Bit(RegAt(regs, 772), 3) = 1

\* Line k-1 was copied from and to the addresses and with the length stated.
CopyLineAsStated(k) ==
    /\ calls[k].kind = "Copy"
    /\ ToNat(calls[k].src) = CopyInBase + (k - 1) * (CopyInBytes + CopyInPadding)
    /\ ToNat(calls[k].dst) = CopyOutBase + (k - 1) * (CopyOutBytes + CopyOutPadding)
    /\ ToNat(calls[k].len) = MinOf(CopyInBytes, CopyTotal - (k - 1) * CopyInBytes)

NoPaddingRead(k) ==
    \A j \in 0..(ToNat(calls[k].len) - 1) :
        ~InPaddingPart(ToNat(calls[k].src) - CopyInBase + j, CopyInBytes, CopyInPadding)

NoPaddingWritten(k) ==
    \A j \in 0..(ToNat(calls[k].len) - 1) :
        ~InPaddingPart(ToNat(calls[k].dst) - CopyOutBase + j, CopyOutBytes, CopyOutPadding)

RECURSIVE BytesMoved(_)
\* The bytes moved by the first k copies.
BytesMoved(k) == IF k = 0 THEN 0 ELSE ToNat(calls[k].len) + BytesMoved(k - 1)

RawCopyAmendedLines ==
    RawCopyStarted =>
        /\ \A k \in 1..Len(calls) :
              /\ CopyLineAsStated(k)
              /\ NoPaddingRead(k)
              /\ ( \/ CopyOutPadding = 0
                   \/ MinOf(CopyInBytes, CopyTotal) <= CopyOutBytes )
                 => NoPaddingWritten(k)
        /\ pc = "idle" => BytesMoved(Len(calls)) = CopyTotal

\* A texture copy is running with parameters under which it returns.
RawCopyReturns == pc = "copy" /\ (CopyTotal = 0 \/ CopyInBytes > 0)

====
